---- MODULE Spec2Model ----
(***************************************************************************)
(* Model of kupferbootstrap's package build orchestration                  *)
(* (src/packages/__init__.py) and of its repository index client           *)
(* (src/distro.py).                                                        *)
(*                                                                         *)
(* The specifications share the variables:                                 *)
(*   Spec       discover_packages, filter_packages and                     *)
(*              generate_dependency_chain over a family of recipe trees;   *)
(*   SpecBuild  build(): discovery, planning, building and publishing into *)
(*              the per-arch package repositories on disk;                 *)
(*   SpecCall   one call of check_package_version_built, add_file_to_repo, *)
(*              add_package_to_repo, build_package, resolve_url or         *)
(*              Repo.scan on a repository tree earlier runs left;          *)
(*   SpecDependants  discovery, selection and one call of get_dependants;  *)
(*   SpecParallel    discover_packages with parallel parse tasks;          *)
(*   SpecLive   Spec under weak fairness, for termination;                 *)
(*   SpecRecursion   get_dependants call by call, on cyclic registries;    *)
(*   SpecOrder  generate_dependency_chain run twice on the same input;     *)
(*   SpecRepoInfo    the RepoInfo and Repo objects of the distros.         *)
(***************************************************************************)
EXTENDS Integers, Sequences, FiniteSets, TLC

VARIABLES
    pc,             \* position of the running invocation
    results,        \* discover_packages: the parsed Pkgbuilds, in parse order
    packages,       \* discover_packages: dict name -> Pkgbuild (index into results)
    local_depends,  \* Pkgbuild.local_depends, per Pkgbuild
    to_build,       \* generate_dependency_chain: the requested Pkgbuilds
    visited,        \* generate_dependency_chain: visited
    visited_names,  \* generate_dependency_chain: visited_names
    dep_levels,     \* generate_dependency_chain: dep_levels (index 1 is level 0)
    level,          \* generate_dependency_chain: level
    repeat_count,   \* generate_dependency_chain: repeat_count
    last_level,     \* generate_dependency_chain: _last_level
    package_levels, \* generate_dependency_chain: the returned build order
    error,          \* the exception that ended the invocation, "none" while it runs
    host,           \* config.runtime['arch']
    args,           \* cmd_build: paths, force, rebuild_dependants, try_download
    target_arch,    \* build(): arch
    run,            \* which of two successive invocations of build() is running
    first,          \* how the first invocation went: its arch and its outcome
    jobs,           \* the build_packages_by_paths calls build() still has to make
    binfmt_registered, \* the arches this invocation has called binfmt_register for
    selected,       \* build_packages: packages (what filter_packages returned)
    dependants,     \* get_unbuilt_package_levels: dependants
    checked,        \* get_unbuilt_package_levels: the packages examined so far
    kept,           \* get_unbuilt_package_levels: the packages put into a level
    build_levels,   \* get_unbuilt_package_levels: build_levels
    built,          \* build_packages: the packages build_package has returned for
    published,      \* build_packages: the packages add_package_to_repo has returned for
    package,        \* build_packages: the package being built and published
    adds,           \* the add_file_to_repo calls the last step completed
    disk,           \* the file system
    call            \* SpecCall: the remote index, the call made and its outcome

solverVars == <<to_build, visited, visited_names, dep_levels, level, repeat_count,
                last_level, package_levels>>
discoverVars == <<results, packages, local_depends>>
inputVars == <<host, args, target_arch, run, first>>
planVars == <<selected, dependants, checked, kept, build_levels>>
buildVars == <<built, published, package>>
orchVars == <<inputVars, jobs, binfmt_registered, planVars, buildVars, adds, disk, call>>
vars == <<pc, error, discoverVars, solverVars, orchVars>>

(***************************************************************************)
(* Bounds of the model.                                                    *)
(***************************************************************************)
\* longest depends list of a recipe
MaxDeps == 2

\* the desc files of a scanned index archive: at most MaxMembers
MaxMembers == 2

\* the nested calls of get_dependants the interpreter allows before it raises
\* RecursionError
MaxRecursion == 30

\* names recipes are called by, and a name that is only ever an alias
PkgNames == {"a", "b", "c"}
AllNames == PkgNames \cup {"foo"}

(***************************************************************************)
(* Helpers.                                                                *)
(***************************************************************************)
Range(s) == {s[i] : i \in DOMAIN s}

\* every enumeration order of a finite set
Orders(S) == {s \in [1..Cardinality(S) -> S] : \A i, j \in 1..Cardinality(S) : s[i] = s[j] => i = j}

\* duplicate-free sequences over S of length at most n
SeqsUpTo(S, n) == UNION {{s \in [1..k -> S] : \A i, j \in 1..k : s[i] = s[j] => i = j} : k \in 0..n}

(***************************************************************************)
(* Pkgbuild records (packages/pkgbuild.py is not part of the sources; the  *)
(* fields are those of the data model).                                    *)
(***************************************************************************)
Recipe(n, path, repo, pkgarch, deps, prov, repl) ==
    [name |-> n, path |-> path, repo |-> repo, version |-> "1", mode |-> "host",
     pkgarch |-> pkgarch, depends |-> deps, provides |-> prov, replaces |-> repl,
     pkgnames |-> <<n>>]

\* a PKGBUILD that builds several packages (a split package): one package
\* file per name
SplitRecipe(n, path, repo, pkgarch, pkgnames) ==
    [Recipe(n, path, repo, pkgarch, <<>>, <<>>, <<>>) EXCEPT !.pkgnames = pkgnames]

Pkgbuild(n, deps, prov, repl) == Recipe(n, n, "main", "native", deps, prov, repl)

\* Pkgbuild.names(): name, provides and replaces
names(p) == {p.name} \cup Range(p.provides) \cup Range(p.replaces)

(***************************************************************************)
(* discover_packages                                                       *)
(***************************************************************************)
\* packages[k] = v
DictPut(d, k, v) == [n \in DOMAIN d \cup {k} |-> IF n = k THEN v ELSE d[n]]

\* packages.values()
DictValues(d) == {d[n] : n \in DOMAIN d}

\* for name in [package.name] + package.replaces: packages[name] = package
RECURSIVE InsertNames(_, _, _)
InsertNames(d, i, ns) ==
    IF ns = <<>> THEN d ELSE InsertNames(DictPut(d, Head(ns), i), i, Tail(ns))

\* the names a package is inserted under
InsertedNames(p) == <<p.name>> \o p.replaces

\* for package in results: ...
RECURSIVE BuildDictionary(_, _, _)
BuildDictionary(res, i, d) ==
    IF i > Len(res) THEN d
    ELSE BuildDictionary(res, i + 1, InsertNames(d, i, InsertedNames(res[i])))

\* found: dep is a key, or some registered package answers to it by names()
DepFound(res, d, dep) ==
    \/ dep \in DOMAIN d
    \/ \E i \in DictValues(d) : dep \in names(res[i])

\* package.local_depends for every package of packages.values(); a Pkgbuild
\* that lost all its keys is not visited and keeps no list
FilterLocalDepends(res, d) ==
    [i \in 1..Len(res) |->
        IF i \in DictValues(d)
        THEN LET Keep(dep) == DepFound(res, d, dep) IN SelectSeq(res[i].depends, Keep)
        ELSE <<>>]

(***************************************************************************)
(* filter_packages                                                         *)
(***************************************************************************)
FilterPackages(res, d, paths) ==
    IF "all" \in paths THEN DictValues(d)
    ELSE {i \in DictValues(d) : {res[i].path, res[i].name} \cap paths # {}}

(***************************************************************************)
(* generate_dependency_chain                                               *)
(***************************************************************************)
\* the depth at which the solver gives up, and the repetitions it tolerates
MaxLevelDepth == 100
MaxRepeat == 10

\* _last_level = None (no level holds Pkgbuild 0)
NoLevel == {0}

\* visit(package)
Visit(st, i) ==
    [st EXCEPT !.visited = @ \cup {i}, !.visited_names = @ \cup names(results[i])]

\* get_recursive_dependencies(package) as consumed by the level-0 loop:
\* st.level0 collects what is yielded; k walks package.depends
RECURSIVE GetRecursiveDependencies(_, _, _)
GetRecursiveDependencies(i, k, st) ==
    IF k > Len(results[i].depends) THEN st
    ELSE LET dep_name == results[i].depends[k] IN
         IF dep_name \in st.visited_names THEN GetRecursiveDependencies(i, k + 1, st)
         ELSE IF dep_name \in DOMAIN packages
         THEN LET dep_pkg == packages[dep_name]
                  st1 == Visit([st EXCEPT !.level0 = @ \cup {dep_pkg}], dep_pkg)
              IN GetRecursiveDependencies(i, k + 1, GetRecursiveDependencies(dep_pkg, 1, st1))
         ELSE GetRecursiveDependencies(i, k + 1, st)

\* for package in to_build: visit, add to level 0, add its recursive dependencies
RECURSIVE InitLevel0(_, _, _)
InitLevel0(ord, k, st) ==
    IF k > Len(ord) THEN st
    ELSE LET st1 == Visit([st EXCEPT !.level0 = @ \cup {ord[k]}], ord[k])
         IN InitLevel0(ord, k + 1, GetRecursiveDependencies(ord[k], 1, st1))

\* some other package of level_copy depends on pkg under one of its names
IsDependedOn(pkg, level_copy) ==
    \E other_pkg \in level_copy \ {pkg} :
        \E k \in DOMAIN results[other_pkg].depends :
            results[other_pkg].depends[k] \in names(results[pkg])

\* AddUnvisited without "if dep_name in visited_names: continue"
RECURSIVE AddUnvisitedAlways(_, _, _)
AddUnvisitedAlways(pkg, k, ps) ==
    IF k > Len(results[pkg].depends) THEN ps
    ELSE LET dep_name == results[pkg].depends[k] IN
         IF dep_name \in DOMAIN packages
         THEN LET dep_pkg == packages[dep_name]
              IN AddUnvisitedAlways(pkg, k + 1,
                    Visit([ps EXCEPT !.cur = @ \cup {dep_pkg}, !.modified = TRUE], dep_pkg))
         ELSE AddUnvisitedAlways(pkg, k + 1, ps)

\* for dep_name in pkg.depends: add the not yet visited ones to the level
RECURSIVE AddUnvisited(_, _, _)
AddUnvisited(pkg, k, ps) ==
    IF k > Len(results[pkg].depends) THEN ps
    ELSE LET dep_name == results[pkg].depends[k] IN
         IF dep_name \in ps.visited_names THEN AddUnvisited(pkg, k + 1, ps)
         ELSE IF dep_name \in DOMAIN packages
         THEN LET dep_pkg == packages[dep_name]
              IN AddUnvisited(pkg, k + 1,
                    Visit([ps EXCEPT !.cur = @ \cup {dep_pkg}, !.modified = TRUE], dep_pkg))
         ELSE AddUnvisited(pkg, k + 1, ps)

\* ScanPkg that adds a depended-on pkg to the next level and leaves it on
\* this one
ScanPkgKeep(pkg, level_copy, ps) ==
    IF pkg \notin ps.cur THEN ps
    ELSE LET moved == IF IsDependedOn(pkg, level_copy)
                      THEN [ps EXCEPT !.nxt = @ \cup {pkg}, !.modified = TRUE]
                      ELSE ps
         IN AddUnvisited(pkg, 1, moved)

\* the body of "for pkg in level_copy"
ScanPkg(pkg, level_copy, ps) ==
    IF pkg \notin ps.cur THEN ps
    ELSE LET moved == IF IsDependedOn(pkg, level_copy)
                      THEN [ps EXCEPT !.cur = @ \ {pkg}, !.nxt = @ \cup {pkg},
                                      !.modified = TRUE]
                      ELSE ps
         IN AddUnvisited(pkg, 1, moved)

RECURSIVE ScanLevel(_, _, _, _)
ScanLevel(ord, k, level_copy, ps) ==
    IF k > Len(ord) THEN ps
    ELSE ScanLevel(ord, k + 1, level_copy, ScanPkg(ord[k], level_copy, ps))

Reverse(s) == [i \in 1..Len(s) |-> s[Len(s) + 1 - i]]

\* BuildOrder without the reversal: the levels in the order they were scanned
BuildOrderUnreversed(levels) ==
    LET NonEmpty(lvl) == lvl # {} IN SelectSeq(levels, NonEmpty)

\* list([lvl for lvl in dep_levels[::-1] if lvl])
BuildOrder(levels) ==
    LET NonEmpty(lvl) == lvl # {} IN SelectSeq(Reverse(levels), NonEmpty)

(***************************************************************************)
(* The disk: the package repositories <packages>/<arch>/<repo>/, the       *)
(* recipe directories <pkgbuilds>/<path>/ and the pacman cache.            *)
(*                                                                         *)
(* A file name is the sequence of its parts, name-version-arch.pkg.tar.ext *)
(* A directory of files is a dict from file name to content; the content   *)
(* of a package file is the name of the run that built it.                 *)
(***************************************************************************)
\* constants.ARCHES, constants.REPOSITORIES, constants.CROSSDIRECT_PKGS
ArchList == <<"x86_64", "aarch64">>
Arches == Range(ArchList)
Repositories == {"main", "cross"}
CrossdirectPkgs == {"crossdirect"}

PkgFile(name, version, archtag) == <<name, version, archtag, "pkg", "tar", "zst">>

\* an index file <repo>.<n>: absent, a regular file holding desc entries, or
\* the symlink repo-add leaves beside the .tar.xz
NoFile == [kind |-> "none", entries |-> {}]
RegularFile(e) == [kind |-> "file", entries |-> e]
LinkFile == [kind |-> "link", entries |-> {}]

IndexExts == {"db", "files"}
Tar(ext) == IF ext = "db" THEN "db.tar.xz" ELSE "files.tar.xz"
Old(ext) == IF ext = "db" THEN "db.tar.xz.old" ELSE "files.tar.xz.old"
IndexNames == IndexExts \cup {Tar(e) : e \in IndexExts} \cup {Old(e) : e \in IndexExts}

NoDir == [exists |-> FALSE, files |-> <<>>, index |-> [n \in IndexNames |-> NoFile]]

EmptyDisk ==
    [packages |-> [a \in Arches |-> [r \in Repositories |-> NoDir]],
     pkgbuilds |-> [p \in {"main/a", "main/b", "main/c", "cross/crossdirect"} |-> <<>>],
     pacman |-> [a \in Arches |-> <<>>]]

DictDrop(d, k) == [n \in DOMAIN d \ {k} |-> d[n]]

\* os.path.exists of an index file (a symlink exists when its target does)
IndexExists(dir, n) ==
    \/ dir.index[n].kind = "file"
    \/ dir.index[n].kind = "link" /\ dir.index[Tar(n)].kind = "file"

\* what reading an index file yields
IndexContent(dir, n) ==
    IF dir.index[n].kind = "link" THEN dir.index[Tar(n)].entries ELSE dir.index[n].entries

\* CreateMissingIndex that writes an empty archive over every index file
CreateEmptyIndex(dir) ==
    [dir EXCEPT !.exists = TRUE,
                !.index = [n \in IndexNames |->
                    IF n \in IndexExts \cup {Tar(e) : e \in IndexExts}
                    THEN RegularFile({}) ELSE dir.index[n]]]

\* tar -czf <repo>.<n> -T /dev/null for every index file that does not exist
CreateMissingIndex(dir) ==
    [dir EXCEPT !.exists = TRUE,
                !.index = [n \in IndexNames |->
                    IF n \in IndexExts \cup {Tar(e) : e \in IndexExts} /\ ~IndexExists(dir, n)
                    THEN RegularFile({}) ELSE dir.index[n]]]

\* init_prebuilts(arch)
InitPrebuilts(d, arch) ==
    [d EXCEPT !.packages[arch] = [r \in Repositories |-> CreateMissingIndex(d.packages[arch][r])]]

\* the desc entry repo-add writes for a package file
Desc(file) == [NAME |-> file[1], VERSION |-> file[2], FILENAME |-> file]

\* repo-add --remove <repo>.db.tar.xz <file>: the entry replaces those of the
\* same package (whose other files are deleted), the previous archives are
\* kept as .old, <repo>.db and <repo>.files become symlinks
RepoAdd(dir, file) ==
    LET before == IndexContent(dir, "db.tar.xz")
        replaced == {e \in before : e.NAME = Desc(file).NAME}
        entries == (before \ replaced) \cup {Desc(file)}
        stale == {e.FILENAME : e \in replaced} \ {file}
    IN [dir EXCEPT
          !.files = [f \in DOMAIN dir.files \ stale |-> dir.files[f]],
          !.index = [n \in IndexNames |->
              IF n \in IndexExts THEN LinkFile
              ELSE IF \E e \in IndexExts : n = Tar(e) THEN RegularFile(entries)
              ELSE IF n = Old("db") /\ IndexExists(dir, Tar("db")) THEN dir.index[Tar("db")]
              ELSE IF n = Old("files") /\ IndexExists(dir, Tar("files")) THEN dir.index[Tar("files")]
              ELSE dir.index[n]]]

\* NormaliseIndex that unlinks <repo>.<ext> and does not copy the .tar.xz
NormaliseUnlinkOnly(dir) ==
    [dir EXCEPT !.index = [n \in IndexNames |->
        IF n \in IndexExts /\ IndexExists(dir, Tar(n)) THEN NoFile
        ELSE IF \E e \in IndexExts : n = Old(e) THEN NoFile
        ELSE dir.index[n]]]

\* for ext in ['db', 'files']: replace <repo>.<ext> by a copy of the .tar.xz,
\* remove the .tar.xz.old
NormaliseIndex(dir) ==
    [dir EXCEPT !.index = [n \in IndexNames |->
        IF n \in IndexExts /\ IndexExists(dir, Tar(n)) THEN RegularFile(IndexContent(dir, Tar(n)))
        ELSE IF \E e \in IndexExts : n = Old(e) THEN NoFile
        ELSE dir.index[n]]]

\* where a file lies: a recipe directory or a repository directory
InPkgbuild(path) == [kind |-> "pkgbuild", path |-> path, arch |-> "", repo |-> ""]
InRepo(arch, repo) == [kind |-> "repo", path |-> "", arch |-> arch, repo |-> repo]

FilesAt(d, loc) ==
    IF loc.kind = "repo" THEN d.packages[loc.arch][loc.repo].files ELSE d.pkgbuilds[loc.path]

HasFile(d, loc, file) == file \in DOMAIN FilesAt(d, loc)

\* os.unlink
Unlink(d, loc, file) ==
    IF loc.kind = "repo"
    THEN [d EXCEPT !.packages[loc.arch][loc.repo].files = DictDrop(@, file)]
    ELSE [d EXCEPT !.pkgbuilds[loc.path] = DictDrop(@, file)]

\* CopyToRepo that copies nothing
CopyToRepoLost(d, loc, file, arch, repo) == d

\* shutil.copy / shutil.copyfile into a repository directory
CopyToRepo(d, loc, file, arch, repo) ==
    [d EXCEPT !.packages[arch][repo].files = DictPut(@, file, FilesAt(d, loc)[file])]

\* add_file_to_repo(file_path, repo_name, arch); repo_add_ok is the exit
\* status of repo-add. Yields the disk and the exception raised, if any.
AddFileToRepo(d, loc, file, repo_name, arch, repo_add_ok) ==
    LET target == InRepo(arch, repo_name)
        made == [d EXCEPT !.packages[arch][repo_name].exists = TRUE]
        moved == IF loc # target THEN Unlink(CopyToRepo(made, loc, file, arch, repo_name), loc, file)
                 ELSE made
        cleaned == [moved EXCEPT !.pacman[arch] = DictDrop(@, file)]
        dir == cleaned.packages[arch][repo_name]
    IN IF ~repo_add_ok
       THEN [disk |-> cleaned, error |-> "repo_add"]
       ELSE [disk |-> [cleaned EXCEPT !.packages[arch][repo_name] = NormaliseIndex(RepoAdd(dir, file))],
             error |-> "none"]

\* strip_compression_extension(filename)
StripCompressionExtension(file) ==
    IF /\ Len(file) >= 3
       /\ file[Len(file)] \in {"zst", "xz", "gz", "bz2"}
       /\ file[Len(file) - 1] = "tar" /\ file[Len(file) - 2] = "pkg"
    THEN SubSeq(file, 1, Len(file) - 1)
    ELSE file

\* stripped_name.endswith('.pkg.tar')
EndsWithPkgTar(file) ==
    Len(file) >= 2 /\ file[Len(file)] = "tar" /\ file[Len(file) - 1] = "pkg"

\* stripped_name.endswith('any.pkg.tar')
EndsWithAnyPkgTar(file) ==
    Len(file) >= 3 /\ EndsWithPkgTar(file) /\ file[Len(file) - 2] = "any"

(***************************************************************************)
(* distro.py: scanning a local repository                                  *)
(***************************************************************************)
\* get_kupfer_local: f"file://{dir}/$arch/$repo", as its parts
LocalUrlTemplate == <<"file://", "$arch", "$repo">>

\* resolve_url(url_template, repo_name, arch): $arch is replaced by
\* config.runtime['arch']
ResolveUrl(url_template, repo_name, arch, runtime_arch) ==
    [i \in DOMAIN url_template |->
        IF url_template[i] = "$repo" THEN repo_name
        ELSE IF url_template[i] = "$arch" THEN runtime_arch
        ELSE url_template[i]]

\* PackageInfo.parse_desc
ParseDesc(desc) == [name |-> desc.NAME, version |-> desc.VERSION, filename |-> desc.FILENAME]

\* the keys PackageInfo.parse_desc looks up in a desc file
DescKeys == {"NAME", "VERSION", "FILENAME"}

\* Repo.scan(): "for node in index.getmembers()" over the desc files of the
\* index archive; parse_desc's desc['NAME'], desc['VERSION'],
\* desc['FILENAME'] raise KeyError for a desc file without the key, and
\* nothing in scan catches it
RECURSIVE ScanMembers(_, _, _)
ScanMembers(members, k, pkgs) ==
    IF k > Len(members) THEN [packages |-> pkgs, error |-> "none"]
    ELSE IF ~(DescKeys \subseteq DOMAIN members[k])
    THEN [packages |-> pkgs, error |-> "key_error"]
    ELSE LET pkg == ParseDesc(members[k])
         IN ScanMembers(members, k + 1, DictPut(pkgs, pkg.name, pkg))

\* Repo.scan() of the local repository (name, arch): the PackageInfos read
\* from <resolved_url>/<name>.db
Scan(d, name, arch, runtime_arch) ==
    LET resolved_url == ResolveUrl(LocalUrlTemplate, name, arch, runtime_arch)
        dir == d.packages[resolved_url[2]][resolved_url[3]]
    IN {ParseDesc(e) : e \in IndexContent(dir, "db")}

(***************************************************************************)
(* Actions.                                                                *)
(***************************************************************************)
\* discover_packages(): the dictionary, then the local dependencies
Discover ==
    /\ pc = "start"
    /\ LET d == BuildDictionary(results, 1, <<>>) IN
        /\ packages' = d
        /\ local_depends' = FilterLocalDepends(results, d)
    /\ pc' = "discovered"
    /\ UNCHANGED <<error, results, solverVars, orchVars>>

\* filter_packages(repo, paths, allow_empty_results=False)
Select ==
    /\ pc = "discovered"
    /\ \E paths \in {{n} : n \in PkgNames} \cup {{"all"}} :
        LET sel == FilterPackages(results, packages, paths) IN
        IF sel = {}
        THEN /\ pc' = "failed" /\ error' = "no_match" /\ UNCHANGED to_build
        ELSE /\ pc' = "chain" /\ to_build' = sel /\ UNCHANGED error
    /\ UNCHANGED <<discoverVars, visited, visited_names, dep_levels,
                   level, repeat_count, last_level, package_levels, orchVars>>

\* generate_dependency_chain, up to the main loop: level 0
InitLevels ==
    /\ pc = "chain"
    /\ \E ord \in Orders(to_build) :
        LET st == InitLevel0(ord, 1, [visited |-> {}, visited_names |-> {}, level0 |-> {}]) IN
        /\ visited' = st.visited
        /\ visited_names' = st.visited_names
        /\ dep_levels' = <<st.level0, {}>>
    /\ level' = 0
    /\ repeat_count' = 0
    /\ last_level' = NoLevel
    /\ pc' = "scan"
    /\ UNCHANGED <<error, discoverVars, to_build, package_levels, orchVars>>

\* one pass of "while dep_levels[level]"
ScanPass ==
    /\ pc = "scan"
    /\ dep_levels[level + 1] # {}
    /\ IF level > MaxLevelDepth
       THEN /\ pc' = "failed" /\ error' = "depth"
            /\ UNCHANGED <<visited, visited_names, dep_levels, level, repeat_count, last_level>>
       ELSE \E ord \in Orders(dep_levels[level + 1]) :
            LET level_copy == dep_levels[level + 1]
                ps == ScanLevel(ord, 1, level_copy,
                        [cur |-> level_copy, nxt |-> dep_levels[level + 2],
                         visited |-> visited, visited_names |-> visited_names,
                         modified |-> FALSE])
                rc == IF last_level = ps.cur THEN repeat_count + 1 ELSE 0
                scanned == [dep_levels EXCEPT ![level + 1] = ps.cur, ![level + 2] = ps.nxt]
            IN  /\ visited' = ps.visited
                /\ visited_names' = ps.visited_names
                /\ repeat_count' = rc
                /\ IF rc > MaxRepeat
                   THEN /\ pc' = "failed" /\ error' = "cycle"
                        /\ dep_levels' = scanned
                        /\ UNCHANGED <<level, last_level>>
                   ELSE /\ last_level' = ps.cur
                        /\ level' = IF ps.modified THEN level ELSE level + 1
                        /\ dep_levels' = IF ps.modified THEN scanned ELSE Append(scanned, {})
                        /\ UNCHANGED <<pc, error>>
    /\ UNCHANGED <<discoverVars, to_build, package_levels, orchVars>>

\* the loop ends on an empty level: reverse into build order, prune empty levels
Finish ==
    /\ pc = "scan"
    /\ dep_levels[level + 1] = {}
    /\ package_levels' = BuildOrder(dep_levels)
    /\ pc' = "solved"
    /\ UNCHANGED <<error, discoverVars, to_build, visited, visited_names, dep_levels,
                   level, repeat_count, last_level, orchVars>>

(***************************************************************************)
(* Spec: discovery and the dependency solver over a family of recipe trees *)
(***************************************************************************)
\* recipes a, b, c in parse order; b may answer to one alias, by provides or
\* by replaces: a fresh name, or the name of the recipe before or after it
Aliases == {<<>>, <<"foo">>, <<"a">>, <<"c">>}
AliasPairs == {pr \in Aliases \X Aliases : pr[1] = <<>> \/ pr[2] = <<>>}

RecipeTrees ==
    {<<Pkgbuild("a", da, <<>>, <<>>), Pkgbuild("b", db, al[1], al[2]),
       Pkgbuild("c", dc, <<>>, <<>>)>> :
        da \in SeqsUpTo(AllNames \ {"a"}, MaxDeps),
        db \in SeqsUpTo(AllNames \ {"b"}, MaxDeps),
        dc \in SeqsUpTo(AllNames \ {"c"}, MaxDeps),
        al \in AliasPairs}

\* the state before discovery, the solver and the planner have run
Fresh ==
    /\ pc = "start"
    /\ error = "none"
    /\ packages = <<>>
    /\ local_depends = <<>>
    /\ to_build = {}
    /\ visited = {}
    /\ visited_names = {}
    /\ dep_levels = <<{}, {}>>
    /\ level = 0
    /\ repeat_count = 0
    /\ last_level = NoLevel
    /\ package_levels = <<>>
    /\ selected = {}
    /\ dependants = {}
    /\ checked = {}
    /\ kept = {}
    /\ build_levels = <<>>
    /\ built = {}
    /\ published = {}
    /\ package = 0
    /\ adds = <<>>
    /\ binfmt_registered = {}

\* no call has been made; no remote index is looked at
NoCall ==
    [op |-> "none", remote |-> {}, network |-> "up", before |-> <<>>, loc |-> <<>>,
     file |-> <<>>, repo |-> "", arch |-> "", url_template |-> <<>>, url |-> <<>>,
     built |-> FALSE, repo_add_failed |-> FALSE, build |-> <<>>, scan |-> <<>>,
     chunks |-> <<>>, finished |-> <<>>, depth |-> 0, pending |-> {}, plan |-> <<>>,
     class_options |-> {}, infos |-> <<>>, repos |-> <<>>,
     error |-> "none"]

NoArgs == [paths |-> {}, force |-> FALSE, rebuild_dependants |-> FALSE, try_download |-> FALSE]

Init ==
    /\ Fresh
    /\ results \in RecipeTrees
    /\ host = "x86_64"
    /\ args = NoArgs
    /\ target_arch = "x86_64"
    /\ run = "first"
    /\ first = [arch |-> "x86_64", outcome |-> "running", built |-> {}]
    /\ jobs = <<>>
    /\ disk = EmptyDisk
    /\ call = NoCall

Next == Discover \/ Select \/ InitLevels \/ ScanPass \/ Finish

Spec == Init /\ [][Next]_vars

\* the recipe trees of RecipeTrees in which every dependency names a recipe
LiveTrees ==
    {<<Pkgbuild("a", da, <<>>, <<>>), Pkgbuild("b", db, al[1], al[2]),
       Pkgbuild("c", dc, <<>>, <<>>)>> :
        da \in SeqsUpTo(PkgNames \ {"a"}, MaxDeps),
        db \in SeqsUpTo(PkgNames \ {"b"}, MaxDeps),
        dc \in SeqsUpTo(PkgNames \ {"c"}, MaxDeps),
        al \in AliasPairs}

InitLive ==
    /\ Fresh
    /\ results \in LiveTrees
    /\ host = "x86_64"
    /\ args = NoArgs
    /\ target_arch = "x86_64"
    /\ run = "first"
    /\ first = [arch |-> "x86_64", outcome |-> "running", built |-> {}]
    /\ jobs = <<>>
    /\ disk = EmptyDisk
    /\ call = NoCall

\* discovery and the solver, with the invocation running on as long as it
\* has a step to take
SpecLive == InitLive /\ [][Next]_vars /\ WF_vars(Next)

(***************************************************************************)
(* Properties of the dependency solver and of discovery (under Spec).      *)
(***************************************************************************)
\* the Pkgbuild a dependency name resolves to in the registry, 0 if none
Resolve(dep_name) == IF dep_name \in DOMAIN packages THEN packages[dep_name] ELSE 0

\* the Pkgbuilds the depends of p resolve to
ResolvedDeps(p) == {Resolve(results[p].depends[k]) : k \in DOMAIN results[p].depends} \ {0}

Planned == UNION Range(package_levels)

\* C1: topological correctness. In a returned plan L1..Lk (build order), no
\* recipe of an earlier level has a dependency that resolves in the registry
\* to a recipe of a later level.
C1_TopologicalCorrectness ==
    pc = "solved" =>
        \A i, j \in DOMAIN package_levels :
            i < j => \A p \in package_levels[i] : ResolvedDeps(p) \cap package_levels[j] = {}

\* a returned plan of several levels, with a dependency from a later level
\* into an earlier one
C1_Witness ==
    /\ pc = "solved"
    /\ Len(package_levels) >= 2
    /\ \E i, j \in DOMAIN package_levels :
        i < j /\ \E p \in package_levels[j] : ResolvedDeps(p) \cap package_levels[i] # {}

\* the registry a -> b, b -> a (and an unrelated c), with a requested
CycleAB ==
    /\ results[1].depends = <<"b">>
    /\ results[2].depends = <<"a">>
    /\ results[2].provides = <<>> /\ results[2].replaces = <<>>
    /\ results[3].depends = <<>>
    /\ to_build = {1}

\* C2: cycle detection. With a -> b, b -> a and a requested, the solver
\* never returns a plan: it ends in a cycle error.
C2_CycleDetected ==
    (CycleAB /\ pc \in {"solved", "failed"}) => (pc = "failed" /\ error \in {"cycle", "depth"})

\* C5: alias closure. After discovery every name of every discovered recipe
\* is a key of the registry and maps to that recipe.
C5_AliasClosure ==
    pc # "start" =>
        \A i \in 1..Len(results) : \A n \in names(results[i]) :
            n \in DOMAIN packages /\ packages[n] = i

\* C6: local-deps soundness. After discovery, local_depends of every
\* registered recipe is drawn from its depends and every entry is a key of
\* the registry.
C6_LocalDepsSound ==
    pc # "start" =>
        \A i \in DictValues(packages) :
            /\ Range(local_depends[i]) \subseteq Range(results[i].depends)
            /\ \A d \in Range(local_depends[i]) : d \in DOMAIN packages

\* C7: build levels. The levels of a returned plan are pairwise disjoint and
\* every dependency of a recipe of level Li that resolves to another planned
\* recipe resolves into an earlier level.
C7_BuildLevels ==
    pc = "solved" =>
        /\ \A i, j \in DOMAIN package_levels :
            i # j => package_levels[i] \cap package_levels[j] = {}
        /\ \A i \in DOMAIN package_levels : \A p \in package_levels[i] :
            \A q \in (ResolvedDeps(p) \cap Planned) \ {p} :
                \E j \in 1..(i - 1) : q \in package_levels[j]

(***************************************************************************)
(* The freshness check, publication and the build plan                     *)
(***************************************************************************)
\* makepkg --packagelist for the target arch: one line per package file
PackageList(p, arch) ==
    [k \in DOMAIN p.pkgnames |->
        PkgFile(p.pkgnames[k], p.version, IF p.pkgarch = "any" THEN "any" ELSE arch)]

\* the state a function threads through its file operations: the disk, the
\* exception raised, the add_file_to_repo calls made and completed, and
\* check_package_version_built's missing
Started(d) == [disk |-> d, error |-> "none", calls |-> 0, adds |-> <<>>, missing |-> TRUE]

\* a call of add_file_to_repo; the fail_at-th call of the step finds repo-add
\* exiting non-zero. A completed call is recorded with what scanning the
\* local repository (repo_name, arch) returns right after it.
DoAdd(es, loc, file, repo_name, arch, fail_at) ==
    IF es.error # "none" THEN es
    ELSE LET r == AddFileToRepo(es.disk, loc, file, repo_name, arch, es.calls + 1 # fail_at)
         IN [es EXCEPT
               !.disk = r.disk,
               !.error = r.error,
               !.calls = @ + 1,
               !.adds = IF r.error = "none"
                        THEN Append(@, [file |-> file, repo |-> repo_name, arch |-> arch,
                                        scanned |-> {pi.filename :
                                            pi \in Scan(r.disk, repo_name, arch, host)}])
                        ELSE @]

\* shutil.copy / shutil.copyfile of a package file into the repository
\* directory of another arch, which has to exist
DoCopy(es, loc, file, arch, repo_name) ==
    IF es.error # "none" THEN es
    ELSE IF ~es.disk.packages[arch][repo_name].exists \/ ~HasFile(es.disk, loc, file)
    THEN [es EXCEPT !.error = "io_error"]
    ELSE [es EXCEPT !.disk = CopyToRepo(es.disk, loc, file, arch, repo_name)]

\* PublishToOthers that leaves the other arches alone
PublishToNone(es, k, file, repo_name, arch, fail_at) == es

\* add_package_to_repo: copy any-arch packages to other repos as well
RECURSIVE PublishToOthers(_, _, _, _, _, _)
PublishToOthers(es, k, file, repo_name, arch, fail_at) ==
    IF k > Len(ArchList) THEN es
    ELSE LET repo_arch == ArchList[k] IN
         IF repo_arch = arch THEN PublishToOthers(es, k + 1, file, repo_name, arch, fail_at)
         ELSE PublishToOthers(
                DoAdd(DoCopy(es, InRepo(arch, repo_name), file, repo_arch, repo_name),
                      InRepo(repo_arch, repo_name), file, repo_name, repo_arch, fail_at),
                k + 1, file, repo_name, arch, fail_at)

\* add_package_to_repo: the body of "for file in os.listdir(pkgbuild_dir)"
PublishFile(es, p, file, arch, fail_at) ==
    LET stripped_name == StripCompressionExtension(file) IN
    IF ~EndsWithPkgTar(stripped_name) THEN es
    ELSE LET es1 == DoAdd(es, InPkgbuild(p.path), file, p.repo, arch, fail_at)
         IN IF EndsWithAnyPkgTar(stripped_name)
            THEN PublishToOthers(es1, 1, file, p.repo, arch, fail_at)
            ELSE es1

\* add_package_to_repo(package, arch), listing the recipe directory in order ord
RECURSIVE AddPackageToRepo(_, _, _, _, _, _)
AddPackageToRepo(es, p, arch, ord, k, fail_at) ==
    IF k > Len(ord) \/ es.error # "none" THEN es
    ELSE AddPackageToRepo(PublishFile(es, p, ord[k], arch, fail_at), p, arch, ord, k + 1, fail_at)

\* try_download_package: get_kupfer_https(arch, scan=True) is called with a
\* keyword get_kupfer_https does not take
TryDownloadPackage(es) == [es EXCEPT !.error = "type_error"]

\* check_package_version_built: "we have to check if another arch's repo
\* holds our any-arch pkg"
RECURSIVE CopyFromOthers(_, _, _, _, _, _)
CopyFromOthers(es, k, file, repo_name, arch, fail_at) ==
    IF k > Len(ArchList) \/ es.error # "none" THEN es
    ELSE LET repo_arch == ArchList[k] IN
         IF repo_arch # arch /\ HasFile(es.disk, InRepo(repo_arch, repo_name), file)
         THEN DoAdd(DoCopy([es EXCEPT !.missing = FALSE],
                           InRepo(repo_arch, repo_name), file, arch, repo_name),
                    InRepo(arch, repo_name), file, repo_name, arch, fail_at)
         ELSE CopyFromOthers(es, k + 1, file, repo_name, arch, fail_at)

\* check_package_version_built: "copy to other arches if they don't have it"
RECURSIVE CopyToOthers(_, _, _, _, _, _)
CopyToOthers(es, k, file, repo_name, arch, fail_at) ==
    IF k > Len(ArchList) \/ es.error # "none" THEN es
    ELSE LET repo_arch == ArchList[k] IN
         IF repo_arch # arch /\ ~HasFile(es.disk, InRepo(repo_arch, repo_name), file)
         THEN CopyToOthers(
                DoAdd(DoCopy(es, InRepo(arch, repo_name), file, repo_arch, repo_name),
                      InRepo(repo_arch, repo_name), file, repo_name, repo_arch, fail_at),
                k + 1, file, repo_name, arch, fail_at)
         ELSE CopyToOthers(es, k + 1, file, repo_name, arch, fail_at)

\* check_package_version_built: the body of "for line in ...split('\n')"
CheckFile(es, p, file, arch, try_download, fail_at) ==
    LET target == InRepo(arch, p.repo)
        filename_stripped == StripCompressionExtension(file)
    IN
    IF ~EndsWithPkgTar(filename_stripped) THEN es
    ELSE LET es1 == IF HasFile(es.disk, target, file)
                    THEN DoAdd([es EXCEPT !.missing = FALSE], target, file, p.repo, arch, fail_at)
                    ELSE IF try_download THEN TryDownloadPackage(es)
                    ELSE es
         IN IF es1.error # "none" \/ ~EndsWithAnyPkgTar(filename_stripped) THEN es1
            ELSE LET es2 == IF HasFile(es1.disk, target, file)
                            THEN [es1 EXCEPT !.missing = FALSE]
                            ELSE CopyFromOthers(es1, 1, file, p.repo, arch, fail_at)
                 IN IF es2.error = "none" /\ HasFile(es2.disk, target, file)
                    THEN CopyToOthers(es2, 1, file, p.repo, arch, fail_at)
                    ELSE es2

RECURSIVE CheckFiles(_, _, _, _, _, _, _)
CheckFiles(es, p, lines, k, arch, try_download, fail_at) ==
    IF k > Len(lines) \/ es.error # "none" THEN es
    ELSE CheckFiles(CheckFile(es, p, lines[k], arch, try_download, fail_at),
                    p, lines, k + 1, arch, try_download, fail_at)

\* check_package_version_built(package, arch, try_download): the native
\* chroot is set up (init_prebuilts of the host arch), the package list is
\* read and every line is checked; the answer is "not missing"
CheckPackageVersionBuilt(d, p, arch, try_download, fail_at) ==
    CheckFiles(Started(InitPrebuilts(d, host)), p, PackageList(p, arch), 1, arch,
               try_download, fail_at)

\* get_dependants(repo, packages)
RECURSIVE GetDependants(_, _, _)
GetDependants(res, d, pkgs) ==
    LET pkg_names == {res[i].name : i \in pkgs}
        to_add == {i \in DictValues(d) : pkg_names \cap Range(res[i].depends) # {}}
    IN IF to_add # {} THEN to_add \cup GetDependants(res, d, to_add) ELSE to_add

\* MustRebuild with force reaching every package of the plan
MustRebuildForceAll(job, p) ==
    \/ job.force
    \/ job.rebuild_dependants /\ p \in dependants

\* get_unbuilt_package_levels: the packages kept without asking
\* check_package_version_built
MustRebuild(job, p) ==
    \/ job.force /\ p \in selected
    \/ job.rebuild_dependants /\ p \in dependants

\* KeptLevels that keeps every package of the plan
KeptLevelsUnfiltered(levels, keep) ==
    LET NonEmpty(lvl) == lvl # {}
    IN SelectSeq(levels, NonEmpty)

\* the levels of the plan restricted to the packages kept, empty levels dropped
KeptLevels(levels, keep) ==
    LET NonEmpty(lvl) == lvl # {}
    IN SelectSeq([i \in DOMAIN levels |-> levels[i] \cap keep], NonEmpty)

\* CurrentLevel walking the levels from the last to the first
CurrentLevelReversed(levels, done) ==
    CHOOSE i \in DOMAIN levels :
        /\ ~(levels[i] \subseteq done)
        /\ \A j \in (i + 1)..Len(levels) : levels[j] \subseteq done

\* the level a loop over levels is in: the first with a package not yet done
CurrentLevel(levels, done) ==
    CHOOSE i \in DOMAIN levels :
        /\ ~(levels[i] \subseteq done)
        /\ \A j \in 1..(i - 1) : levels[j] \subseteq done

\* build(): build_enable_qemu_binfmt for a foreign arch, then
\* build_packages_by_paths for the arch asked for
BinfmtJob ==
    [kind |-> "binfmt", paths |-> {"cross/crossdirect"}, arch |-> host, force |-> FALSE,
     rebuild_dependants |-> FALSE, try_download |-> TRUE]

MainJob(a) ==
    [kind |-> "main", paths |-> args.paths, arch |-> a, force |-> args.force,
     rebuild_dependants |-> args.rebuild_dependants, try_download |-> args.try_download]

\* JobsFor that goes straight to the build asked for
JobsForUnprepared(a) == <<MainJob(a)>>

JobsFor(a) == (IF a # host THEN <<BinfmtJob>> ELSE <<>>) \o <<MainJob(a)>>

\* build_enable_qemu_binfmt after its build_packages_by_paths returned:
\* pacman installs the emulator packages, "if arch != native:
\* binfmt_register(arch)"
BinfmtRegister(job) ==
    IF job.kind = "binfmt" /\ target_arch # host
    THEN binfmt_registered \cup {target_arch}
    ELSE binfmt_registered

(***************************************************************************)
(* Actions of build().                                                     *)
(***************************************************************************)
\* build_packages_by_paths up to the call of the solver: init_prebuilts,
\* filter_packages, get_dependants
StartJob ==
    /\ pc \in {"discovered", "job"}
    /\ jobs # <<>>
    /\ LET job == Head(jobs)
           d0 == IF job.kind = "binfmt" THEN InitPrebuilts(disk, host) ELSE disk
           d1 == InitPrebuilts(InitPrebuilts(d0, job.arch), host)
           sel == FilterPackages(results, packages, job.paths)
           deps == IF job.rebuild_dependants THEN GetDependants(results, packages, sel) ELSE {}
       IN /\ disk' = d1
          /\ IF sel = {}
             THEN /\ pc' = "failed" /\ error' = "no_match"
                  /\ UNCHANGED <<selected, dependants, to_build>>
             ELSE /\ pc' = "chain"
                  /\ selected' = sel
                  /\ dependants' = deps
                  /\ to_build' = sel \cup deps
                  /\ UNCHANGED error
    /\ checked' = {} /\ kept' = {} /\ build_levels' = <<>>
    /\ built' = {} /\ published' = {} /\ package' = 0 /\ adds' = <<>>
    /\ UNCHANGED <<discoverVars, visited, visited_names, dep_levels, level, repeat_count,
                   last_level, package_levels, inputVars, jobs, binfmt_registered, call>>

\* get_unbuilt_package_levels: one package of the level being filtered
CheckPackage ==
    /\ pc = "solved"
    /\ LET job == Head(jobs)
           lvl == CurrentLevel(package_levels, checked)
       IN \E p \in package_levels[lvl] \ checked, fail_at \in 0..Cardinality(Arches) :
           LET forced == MustRebuild(job, p)
               r == IF forced THEN Started(disk)
                    ELSE CheckPackageVersionBuilt(disk, results[p], job.arch,
                                                  job.try_download, fail_at)
               keep == IF forced \/ r.missing THEN kept \cup {p} ELSE kept
               done == checked \cup {p}
               levels == KeptLevels(package_levels, keep)
           IN /\ disk' = r.disk
              /\ adds' = r.adds
              /\ IF r.error # "none"
                 THEN /\ pc' = "failed" /\ error' = r.error
                      /\ UNCHANGED <<checked, kept, build_levels, jobs>>
                 ELSE /\ checked' = done
                      /\ kept' = keep
                      /\ UNCHANGED error
                      /\ IF done = Planned
                         THEN /\ build_levels' = levels
                              /\ pc' = IF levels = <<>> THEN "job" ELSE "build"
                              /\ jobs' = IF levels = <<>> THEN Tail(jobs) ELSE jobs
                         ELSE UNCHANGED <<pc, build_levels, jobs>>
              /\ binfmt_registered' =
                    IF r.error = "none" /\ done = Planned /\ levels = <<>>
                    THEN BinfmtRegister(job) ELSE binfmt_registered
    /\ UNCHANGED <<discoverVars, solverVars, inputVars, selected, dependants, buildVars, call>>

\* the package files makepkg leaves in the recipe directory
Makepkg(d, p, arch, content) ==
    LET made == Range(PackageList(p, arch))
        before == d.pkgbuilds[p.path]
    IN [d EXCEPT !.pkgbuilds[p.path] =
            [f \in DOMAIN before \cup made |-> IF f \in made THEN content ELSE before[f]]]

\* build_package(package, arch): the chroots are set up (init_prebuilts of
\* the target arch and, for a foreign one, of the host arch), makepkg runs
BuildPackage ==
    /\ pc = "build"
    /\ LET job == Head(jobs)
           lvl == CurrentLevel(build_levels, published)
       IN \E p \in build_levels[lvl] \ published, makepkg_ok \in BOOLEAN :
           LET d1 == InitPrebuilts(disk, job.arch)
               d2 == IF job.arch # host THEN InitPrebuilts(d1, host) ELSE d1
           IN IF makepkg_ok
              THEN /\ disk' = Makepkg(d2, results[p], job.arch, run)
                   /\ built' = built \cup {p}
                   /\ package' = p
                   /\ pc' = "publish"
                   /\ UNCHANGED error
              ELSE /\ disk' = d2
                   /\ pc' = "failed" /\ error' = "build"
                   /\ UNCHANGED <<built, package>>
    /\ adds' = <<>>
    /\ UNCHANGED <<discoverVars, solverVars, inputVars, jobs, binfmt_registered, planVars,
                   published, call>>

\* files += add_package_to_repo(package, arch)
PublishPackage ==
    /\ pc = "publish"
    /\ LET job == Head(jobs)
           p == results[package]
       IN \E ord \in Orders(DOMAIN disk.pkgbuilds[p.path]), fail_at \in 0..Cardinality(Arches) :
           LET r == AddPackageToRepo(Started(disk), p, job.arch, ord, 1, fail_at)
               done == published \cup {package}
           IN /\ disk' = r.disk
              /\ adds' = r.adds
              /\ IF r.error # "none"
                 THEN /\ pc' = "failed" /\ error' = r.error
                      /\ UNCHANGED <<published, jobs>>
                 ELSE /\ published' = done
                      /\ UNCHANGED error
                      /\ pc' = IF done = UNION Range(build_levels) THEN "job" ELSE "build"
                      /\ jobs' = IF done = UNION Range(build_levels) THEN Tail(jobs) ELSE jobs
              /\ binfmt_registered' =
                    IF r.error = "none" /\ done = UNION Range(build_levels)
                    THEN BinfmtRegister(job) ELSE binfmt_registered
    /\ UNCHANGED <<discoverVars, solverVars, inputVars, planVars, built, package, call>>

\* build() is invoked again, for some arch, after the first invocation
\* returned or raised
NextRun ==
    /\ run = "first"
    /\ pc = "failed" \/ (pc = "job" /\ jobs = <<>>)
    /\ \E a \in Arches :
        /\ target_arch' = a
        /\ jobs' = JobsFor(a)
    /\ run' = "second"
    /\ first' = [arch |-> target_arch, outcome |-> IF pc = "failed" THEN "failed" ELSE "ok",
                 built |-> built]
    /\ pc' = "start" /\ error' = "none"
    /\ packages' = <<>> /\ local_depends' = <<>>
    /\ to_build' = {} /\ visited' = {} /\ visited_names' = {}
    /\ dep_levels' = <<{}, {}>> /\ level' = 0 /\ repeat_count' = 0
    /\ last_level' = NoLevel /\ package_levels' = <<>>
    /\ selected' = {} /\ dependants' = {} /\ checked' = {} /\ kept' = {}
    /\ build_levels' = <<>> /\ built' = {} /\ published' = {} /\ package' = 0
    /\ adds' = <<>> /\ binfmt_registered' = {}
    /\ UNCHANGED <<results, host, args, disk, call>>

(***************************************************************************)
(* SpecBuild: two invocations of build() over a family of recipe trees     *)
(***************************************************************************)
\* a (-> b), b -> c, c and crossdirect; c may be an any-arch package
BuildTrees ==
    {<<Recipe("a", "main/a", "main", "native", da, <<>>, <<>>),
       Recipe("b", "main/b", "main", "native", <<"c">>, <<>>, <<>>),
       Recipe("c", "main/c", "main", ac, <<>>, <<>>, <<>>),
       Recipe("crossdirect", "cross/crossdirect", "cross", "native", <<>>, <<>>, <<>>)>> :
        da \in SeqsUpTo({"b"}, MaxDeps), ac \in {"any", "native"}}

ArgSets ==
    [paths : {{"main/a"}, {"all"}}, force : BOOLEAN, rebuild_dependants : BOOLEAN,
     try_download : BOOLEAN]

\* the disk an earlier "build cross/crossdirect" for the host arch leaves
CrossdirectBuilt(h) ==
    LET file == PkgFile("crossdirect", "1", h)
        d1 == InitPrebuilts(EmptyDisk, h)
        d2 == [d1 EXCEPT !.pkgbuilds["cross/crossdirect"] = DictPut(<<>>, file, "prior")]
    IN AddFileToRepo(d2, InPkgbuild("cross/crossdirect"), file, "cross", h, TRUE).disk

InitBuild ==
    /\ Fresh
    /\ results \in BuildTrees
    /\ host \in Arches
    /\ args \in ArgSets
    /\ target_arch \in Arches
    /\ run = "first"
    /\ first = [arch |-> target_arch, outcome |-> "running", built |-> {}]
    /\ jobs = JobsFor(target_arch)
    /\ disk \in {EmptyDisk, CrossdirectBuilt(host)}
    /\ call = NoCall

NextBuild ==
    \/ Discover \/ StartJob \/ InitLevels \/ ScanPass \/ Finish
    \/ CheckPackage \/ BuildPackage \/ PublishPackage \/ NextRun

SpecBuild == InitBuild /\ [][NextBuild]_vars

(***************************************************************************)
(* Properties of build() (under SpecBuild).                                *)
(***************************************************************************)
\* the second invocation repeats the first, which returned without error
SecondOfSame == run = "second" /\ first.outcome = "ok" /\ first.arch = target_arch

\* C3 as stated: idempotent freshness. When build() is run twice in a row
\* with the same inputs and the first run returns without error, the second
\* run's plan is empty: it builds nothing.
C3_IdempotentFreshness ==
    SecondOfSame => (pc # "build" /\ pc # "publish")

\* C3 as amended: the same, for runs with neither force nor
\* rebuild_dependants set.
C3_IdempotentUnforced ==
    (SecondOfSame /\ ~args.force /\ ~args.rebuild_dependants) =>
        (pc # "build" /\ pc # "publish")

\* an unforced second run of the same build has planned and returned, where
\* the first run built something
C3_Witness ==
    /\ SecondOfSame /\ ~args.force /\ ~args.rebuild_dependants
    /\ first.built # {}
    /\ pc = "job" /\ jobs = <<>> /\ checked # {}

\* C4: build-level ordering. A recipe's build begins only when every recipe
\* of the earlier levels has been built and published, and a recipe is
\* published right after its own build, before any other build.
C4_LevelOrdering ==
    /\ \A i, j \in DOMAIN build_levels :
        (i < j /\ build_levels[j] \cap built # {}) => build_levels[i] \subseteq published
    /\ published \subseteq built
    /\ built \ published \subseteq {package}
    /\ pc = "build" => built = published

\* a recipe of the second level has been built and awaits publication,
\* after another recipe of that level has been published
C4_Witness ==
    /\ pc = "publish"
    /\ Len(build_levels) >= 2
    /\ package \in build_levels[2] \ published
    /\ build_levels[2] \cap published # {}

\* C8: index round-trip. After add_file_to_repo(f, repo, arch) succeeds,
\* scanning the local repository (repo, arch) returns a record whose
\* filename is the basename of f.
C8_IndexRoundTrip ==
    \A k \in DOMAIN adds : adds[k].file \in adds[k].scanned

\* the step before published `package`: add_package_to_repo has returned
JustPublished == package # 0 /\ package \in published /\ pc # "failed"

AnyArchAdds == {k \in DOMAIN adds : EndsWithAnyPkgTar(StripCompressionExtension(adds[k].file))}

C10_IndexMirror ==
    \A a \in Arches, r \in Repositories :
        LET dir == disk.packages[a][r] IN
        (\E n \in IndexNames : IndexExists(dir, n)) =>
            \A ext \in IndexExts :
                /\ IndexExists(dir, ext)
                /\ IndexExists(dir, Tar(ext))
                /\ IndexContent(dir, ext) = IndexContent(dir, Tar(ext))

\* a package has been added to a repository whose index was created empty
\* by init_prebuilts, and another repository is still empty
C10_Witness ==
    /\ \E a \in Arches, r \in Repositories :
        /\ disk.packages[a][r].index["db"].kind = "file"
        /\ disk.packages[a][r].index["db"].entries # {}
    /\ \E a \in Arches, r \in Repositories :
        /\ disk.packages[a][r].index["db"].kind = "file"
        /\ disk.packages[a][r].index["db"].entries = {}

(***************************************************************************)
(* SpecCall: one call of check_package_version_built, of add_file_to_repo  *)
(* or of resolve_url, on a repository tree that earlier runs left behind.  *)
(***************************************************************************)
\* the recipe the call is about: one package, a split package of two, an
\* any-arch package, or the cross helper
CallRecipes ==
    {Recipe("a", "main/a", "main", "native", <<>>, <<>>, <<>>),
     SplitRecipe("a", "main/a", "main", "native", <<"a", "a-doc">>),
     Recipe("c", "main/c", "main", "any", <<>>, <<>>, <<>>),
     Recipe("crossdirect", "cross/crossdirect", "cross", "native", <<>>, <<>>, <<>>)}

\* the places the package files of p for arch may lie in: the repository of
\* arch, and for an any-arch package the repository of every arch
Slots(p, arch) ==
    IF p.pkgarch = "any"
    THEN [k \in DOMAIN ArchList |-> <<PackageList(p, arch)[1], ArchList[k]>>]
    ELSE [k \in DOMAIN PackageList(p, arch) |-> <<PackageList(p, arch)[k], arch>>]

\* what an earlier run did with a package file: nothing, built and published
\* it (add_file_to_repo returned), or built it and had repo-add fail
Fates == {"absent", "published", "stranded"}

\* the disk after the earlier runs that dealt with the slots as fates says
RECURSIVE Prepared(_, _, _, _, _)
Prepared(d, p, slots, fates, k) ==
    IF k > Len(slots) THEN d
    ELSE IF fates[k] = "absent" THEN Prepared(d, p, slots, fates, k + 1)
    ELSE LET file == slots[k][1]
             arch == slots[k][2]
             d1 == InitPrebuilts(d, arch)
             d2 == [d1 EXCEPT !.pkgbuilds[p.path] = DictPut(@, file, "prior")]
             d3 == AddFileToRepo(d2, InPkgbuild(p.path), file, p.repo, arch,
                                 fates[k] = "published").disk
         IN Prepared(d3, p, slots, fates, k + 1)

\* the trees a call may find: the repositories of the host and of the target
\* arch are initialised (build_packages_by_paths), the package files met
\* their fates, makepkg may have left the package files in the recipe
\* directory (pending), pacman may hold them in its cache (cached)
CallDisks(p, h, arch) ==
    {LET d0 == InitPrebuilts(InitPrebuilts(EmptyDisk, h), arch)
         d1 == Prepared(d0, p, Slots(p, arch), fates, 1)
         d2 == IF pending THEN Makepkg(d1, p, arch, "first") ELSE d1
     IN IF cached
        THEN [d2 EXCEPT !.pacman[arch] = DictPut(@, PackageList(p, arch)[1], "prior")]
        ELSE d2 :
     fates \in [DOMAIN Slots(p, arch) -> Fates], pending \in BOOLEAN, cached \in BOOLEAN}

\* a record of the remote index, as PackageInfo.parse_desc returns it
PackageInfo(name, version, filename) ==
    [name |-> name, version |-> version, filename |-> filename]

\* the remote index of the recipe's repository: without the package, with
\* the expected file, with another version, with another file name
RemoteIndexes(p, arch) ==
    LET file == PackageList(p, arch)[1] IN
    {{},
     {PackageInfo(p.name, p.version, file)},
     {PackageInfo(p.name, "2", PkgFile(p.name, "2", file[3]))},
     {PackageInfo(p.name, p.version, SubSeq(file, 1, 5) \o <<"xz">>)}}

\* constants.KUPFER_HTTPS, as its parts
KupferHttps == <<"https://", "$repo", "$arch">>

UrlTemplates == {LocalUrlTemplate, KupferHttps}

\* the remote server during the call: answering, or failing every request
\* (the index cannot be fetched, a package request ends in an HTTP error)
Networks == {"up", "down"}

\* the recipe the call is about
CallRecipe == results[1]

\* check_package_version_built(package, arch, try_download)
CallCheckPackageVersionBuilt ==
    /\ pc = "start" /\ call.op = "none"
    /\ \E fail_at \in 0..Cardinality(Arches) :
        LET r == CheckPackageVersionBuilt(disk, CallRecipe, target_arch, args.try_download,
                                          fail_at)
        IN /\ disk' = r.disk
           /\ adds' = r.adds
           /\ error' = r.error
           /\ pc' = IF r.error = "none" THEN "returned" ELSE "failed"
           /\ call' = [call EXCEPT !.op = "is_built", !.before = disk,
                                   !.repo = CallRecipe.repo, !.arch = target_arch,
                                   !.built = ~r.missing, !.error = r.error]
    /\ UNCHANGED <<discoverVars, solverVars, inputVars, jobs, binfmt_registered, planVars,
                   buildVars>>

\* add_file_to_repo(file_path, repo_name, arch) of a package file lying in
\* the recipe directory or already in the repository
CallAddFileToRepo ==
    /\ pc = "start" /\ call.op = "none"
    /\ \E loc \in {InPkgbuild(CallRecipe.path), InRepo(target_arch, CallRecipe.repo)},
          repo_add_ok \in BOOLEAN :
        \E file \in DOMAIN FilesAt(disk, loc) :
            LET r == AddFileToRepo(disk, loc, file, CallRecipe.repo, target_arch, repo_add_ok)
            IN /\ disk' = r.disk
               /\ error' = r.error
               /\ pc' = IF r.error = "none" THEN "returned" ELSE "failed"
               /\ call' = [call EXCEPT !.op = "add_file", !.before = disk, !.loc = loc,
                                       !.file = file, !.repo = CallRecipe.repo,
                                       !.arch = target_arch, !.error = r.error]
    /\ UNCHANGED <<discoverVars, solverVars, inputVars, jobs, binfmt_registered, planVars,
                   buildVars, adds>>

\* resolve_url(url_template, repo_name, arch), as Repo.scan calls it
CallResolveUrl ==
    /\ pc = "start" /\ call.op = "none"
    /\ \E url_template \in UrlTemplates, repo_name \in Repositories, arch \in Arches :
        call' = [call EXCEPT !.op = "resolve_url", !.url_template = url_template,
                             !.repo = repo_name, !.arch = arch,
                             !.url = ResolveUrl(url_template, repo_name, arch, host)]
    /\ pc' = "returned"
    /\ UNCHANGED <<error, discoverVars, solverVars, inputVars, jobs, binfmt_registered,
                   planVars, buildVars, adds, disk>>

\* add_package_to_repo(package, arch) after makepkg returned, whether or not
\* it left package files in the recipe directory
CallAddPackageToRepo ==
    /\ pc = "start" /\ call.op = "none"
    /\ \E ord \in Orders(DOMAIN disk.pkgbuilds[CallRecipe.path]),
          fail_at \in 0..Cardinality(Arches) :
        LET r == AddPackageToRepo(Started(disk), CallRecipe, target_arch, ord, 1, fail_at)
        IN /\ disk' = r.disk
           /\ adds' = r.adds
           /\ error' = r.error
           /\ pc' = IF r.error = "none" THEN "returned" ELSE "failed"
           /\ call' = [call EXCEPT !.op = "add_package", !.before = disk,
                                   !.loc = InPkgbuild(CallRecipe.path),
                                   !.repo = CallRecipe.repo, !.arch = target_arch,
                                   !.repo_add_failed = fail_at \in 1..r.calls,
                                   !.error = r.error]
    /\ UNCHANGED <<discoverVars, solverVars, inputVars, jobs, binfmt_registered, planVars,
                   buildVars>>

\* BuildMode that uses crossdirect for the cross helper's own recipe as well
BuildModeHelperToo(p, arch, enable_crosscompile, enable_crossdirect) ==
    LET foreign_arch == host # arch
        cross == foreign_arch /\ p.mode = "cross" /\ enable_crosscompile
    IN IF cross
       THEN [mode |-> "cross", build_root |-> host,
             makepkg_compile_opts |-> <<"--holdver", "--nodeps">>]
       ELSE [mode |-> IF foreign_arch /\ enable_crossdirect THEN "crossdirect" ELSE "host",
             build_root |-> arch,
             makepkg_compile_opts |-> <<"--holdver", "--syncdeps">>]

\* build_package: how the package is compiled, the chroot makepkg runs in
\* (named by its arch) and makepkg's options
BuildMode(p, arch, enable_crosscompile, enable_crossdirect) ==
    LET foreign_arch == host # arch
        cross == foreign_arch /\ p.mode = "cross" /\ enable_crosscompile
    IN IF cross
       THEN [mode |-> "cross", build_root |-> host,
             makepkg_compile_opts |-> <<"--holdver", "--nodeps">>]
       ELSE [mode |-> IF foreign_arch /\ enable_crossdirect /\ p.name \notin CrossdirectPkgs
                      THEN "crossdirect" ELSE "host",
             build_root |-> arch,
             makepkg_compile_opts |-> <<"--holdver", "--syncdeps">>]

\* build_package(package, arch, enable_crosscompile, enable_crossdirect) of
\* a recipe whose PKGBUILD sets _mode to host or to cross
CallBuildPackage ==
    /\ pc = "start" /\ call.op = "none"
    /\ \E mode \in {"host", "cross"}, enable_crosscompile \in BOOLEAN,
          enable_crossdirect \in BOOLEAN, makepkg_ok \in BOOLEAN :
        LET p == [CallRecipe EXCEPT !.mode = mode]
            d1 == InitPrebuilts(disk, target_arch)
            d2 == IF target_arch # host THEN InitPrebuilts(d1, host) ELSE d1
            b == BuildMode(p, target_arch, enable_crosscompile, enable_crossdirect)
        IN /\ disk' = IF makepkg_ok THEN Makepkg(d2, p, target_arch, "first") ELSE d2
           /\ error' = IF makepkg_ok THEN "none" ELSE "build"
           /\ pc' = IF makepkg_ok THEN "returned" ELSE "failed"
           /\ call' = [call EXCEPT !.op = "build_package", !.before = disk,
                                   !.repo = p.repo, !.arch = target_arch,
                                   !.build = [package |-> p,
                                              enable_crosscompile |-> enable_crosscompile,
                                              enable_crossdirect |-> enable_crossdirect,
                                              chosen |-> b],
                                   !.error = IF makepkg_ok THEN "none" ELSE "build"]
    /\ UNCHANGED <<discoverVars, solverVars, inputVars, jobs, binfmt_registered, planVars,
                   buildVars, adds>>

\* the desc files an index archive may hold for the recipe: a complete one,
\* and ones from which NAME, VERSION or FILENAME cannot be recovered
IndexMembers(p, arch) ==
    LET desc == Desc(PackageList(p, arch)[1])
    IN {desc} \cup {[key \in DescKeys \ {lost} |-> desc[key]] : lost \in DescKeys}

\* Repo.scan() of an index archive
CallScan ==
    /\ pc = "start" /\ call.op = "none"
    /\ \E members \in SeqsUpTo(IndexMembers(CallRecipe, target_arch), MaxMembers) :
        LET r == ScanMembers(members, 1, <<>>)
        IN /\ error' = r.error
           /\ pc' = IF r.error = "none" THEN "returned" ELSE "failed"
           /\ call' = [call EXCEPT !.op = "scan", !.repo = CallRecipe.repo,
                                   !.arch = target_arch,
                                   !.scan = [members |-> members, packages |-> r.packages],
                                   !.error = r.error]
    /\ UNCHANGED <<discoverVars, solverVars, inputVars, jobs, binfmt_registered, planVars,
                   buildVars, adds, disk>>

InitCall ==
    /\ Fresh
    /\ results \in {<<p>> : p \in CallRecipes}
    /\ host \in Arches
    /\ target_arch \in Arches
    /\ args \in {[NoArgs EXCEPT !.try_download = t] : t \in BOOLEAN}
    /\ run = "first"
    /\ first = [arch |-> target_arch, outcome |-> "running", built |-> {}]
    /\ jobs = <<>>
    /\ disk \in CallDisks(results[1], host, target_arch)
    /\ call \in {[NoCall EXCEPT !.remote = r, !.network = n] :
                    r \in RemoteIndexes(results[1], target_arch), n \in Networks}

NextCall ==
    \/ CallCheckPackageVersionBuilt
    \/ CallAddFileToRepo
    \/ CallResolveUrl
    \/ CallAddPackageToRepo
    \/ CallBuildPackage
    \/ CallScan

SpecCall == InitCall /\ [][NextCall]_vars

(***************************************************************************)
(* Properties of single calls (under SpecCall).                            *)
(***************************************************************************)
\* the package files the call's recipe is expected to have for the call's arch
Expected == Range(PackageList(CallRecipe, call.arch))

\* the repository the call is about
CallRepo == InRepo(call.arch, call.repo)

\* the index of the repository (arch, repo) refers to file
Indexed(d, arch, repo, file) == Desc(file) \in IndexContent(d.packages[arch][repo], "db")

\* C11: freshness result. A completed check_package_version_built returns
\* true if and only if no expected package file is missing: each one lies in
\* the repository of the arch (it was there, or was downloaded, or was found
\* under another arch and copied).
C11_FreshnessResult ==
    (call.op = "is_built" /\ call.error = "none") =>
        (call.built <=> \A f \in Expected : HasFile(disk, CallRepo, f))

\* the remote index advertises file for recipe p: same name, version, filename
Advertised(p, file) ==
    \E r \in call.remote : r.name = p.name /\ r.version = p.version /\ r.filename = file

\* C15: remote download decision. When an expected package file is absent
\* locally and try_download is set, the check completes normally; the file
\* is fetched and imported, and the answer is true, if and only if the remote
\* index advertises a record of the same name, version and file name.
C15_RemoteDownload ==
    (/\ call.op = "is_built" /\ args.try_download /\ call.error # "repo_add"
     /\ CallRecipe.pkgarch # "any"
     /\ \E f \in Expected : ~HasFile(call.before, CallRepo, f)) =>
        /\ call.error = "none"
        /\ \A f \in Expected : ~HasFile(call.before, CallRepo, f) =>
            (Advertised(CallRecipe, f) <=> HasFile(disk, CallRepo, f))
        /\ (\A f \in Expected : ~HasFile(call.before, CallRepo, f) => Advertised(CallRecipe, f))
            => call.built

\* C16: any-arch sharing. When the expected any-arch package file is absent
\* under the target arch and present under another arch, a completed check
\* answers true, and afterwards the repositories of both arches hold the
\* file and their indices refer to it.
C16_AnyArchSharing ==
    (call.op = "is_built" /\ call.error = "none" /\ CallRecipe.pkgarch = "any") =>
        \A f \in Expected : \A other \in Arches \ {call.arch} :
            (/\ ~HasFile(call.before, CallRepo, f)
             /\ HasFile(call.before, InRepo(other, call.repo), f)) =>
                /\ call.built
                /\ \A a \in {call.arch, other} :
                    /\ HasFile(disk, InRepo(a, call.repo), f)
                    /\ Indexed(disk, a, call.repo, f)

\* C18: atomic publication. When add_file_to_repo fails, the repository
\* directory, its index files, the download cache and the source file are as
\* they were before the call; when it succeeds, the file is in the
\* repository directory and in the index.
C18_AtomicPublication ==
    call.op = "add_file" =>
        IF call.error # "none" THEN disk = call.before
        ELSE /\ HasFile(disk, CallRepo, call.file)
             /\ Indexed(disk, call.arch, call.repo, call.file)

\* C20: URL resolution. Resolving a url template for a repository replaces
\* $repo by the repository's name and $arch by the repository's arch, also
\* when that arch is not the host arch.
C20_UrlResolution ==
    call.op = "resolve_url" =>
        call.url = [i \in DOMAIN call.url_template |->
                        IF call.url_template[i] = "$repo" THEN call.repo
                        ELSE IF call.url_template[i] = "$arch" THEN call.arch
                        ELSE call.url_template[i]]

\* C21: recoverable network errors. When the remote server fails while an
\* absent package file is looked for with try_download, the failure is
\* consumed inside check_package_version_built: the check completes normally
\* and answers "not built"; no error reaches the caller.
C21_NetworkErrorsRecoverable ==
    (/\ call.op = "is_built" /\ args.try_download /\ call.network = "down"
     /\ call.error # "repo_add"
     /\ CallRecipe.pkgarch # "any"
     /\ \E f \in Expected : ~HasFile(call.before, CallRepo, f)) =>
        (call.error = "none" /\ ~call.built)

\* C22: publish errors are fatal. add_package_to_repo raises when repo-add
\* exits non-zero, and also when the recipe directory holds none of the
\* expected package files.
C22_PublishErrorsFatal ==
    (/\ call.op = "add_package"
     /\ \/ call.repo_add_failed
        \/ \A f \in Expected : ~HasFile(call.before, call.loc, f)) =>
        call.error # "none"

(***************************************************************************)
(* Further properties of the solver (under Spec) and of build() (under     *)
(* SpecBuild).                                                             *)
(***************************************************************************)
\* C27: build mode selection. build_package cross-compiles if and only if
\* the arch is foreign, the recipe's mode is cross and cross-compiling is
\* enabled; otherwise it uses crossdirect if and only if the arch is foreign,
\* crossdirect is enabled and the recipe is not one of the cross helpers;
\* otherwise it builds straight. makepkg runs in the native chroot when
\* cross-compiling and in the target chroot otherwise, with --nodeps when
\* cross-compiling and --syncdeps otherwise.
C27_BuildModeSelection ==
    call.op = "build_package" =>
        LET b == call.build
            foreign == call.arch # host
            cross == foreign /\ b.package.mode = "cross" /\ b.enable_crosscompile
            crossdirect == /\ ~cross /\ foreign /\ b.enable_crossdirect
                           /\ b.package.name \notin CrossdirectPkgs
            opts == Range(b.chosen.makepkg_compile_opts)
        IN /\ b.chosen.mode \in {"cross", "crossdirect", "host"}
           /\ b.chosen.mode = "cross" <=> cross
           /\ b.chosen.mode = "crossdirect" <=> crossdirect
           /\ b.chosen.mode = "host" <=> (~cross /\ ~crossdirect)
           /\ b.chosen.build_root = IF cross THEN host ELSE call.arch
           /\ "--nodeps" \in opts <=> cross
           /\ "--syncdeps" \in opts <=> ~cross

\* the cross helper is built for a foreign arch with crossdirect enabled,
\* and is built straight
C27_Witness ==
    /\ call.op = "build_package" /\ call.arch # host
    /\ call.build.package.name \in CrossdirectPkgs
    /\ call.build.enable_crossdirect /\ call.build.package.mode = "host"
    /\ call.build.chosen.mode = "host"

\* C28: malformed index entries are skipped. A scan of an index holding a
\* desc file from which NAME, VERSION or FILENAME cannot be recovered does
\* not fail: it returns the records of all the complete desc files.
C28_MalformedSkipped ==
    call.op = "scan" =>
        /\ call.error = "none"
        /\ {call.scan.packages[n] : n \in DOMAIN call.scan.packages}
            = {ParseDesc(m) : m \in {e \in Range(call.scan.members) : DescKeys \subseteq DOMAIN e}}

(***************************************************************************)
(* SpecDependants: discovery, selection and one call of get_dependants     *)
(* over recipe trees without dependency cycles.                            *)
(***************************************************************************)
\* recipes b, a (may depend on b), c (may depend on a and b), where b may
\* answer to an alias and the others may depend on b by that alias
DependantTrees ==
    {<<Pkgbuild("a", da, <<>>, <<>>), Pkgbuild("b", <<>>, al[1], al[2]),
       Pkgbuild("c", dc, <<>>, <<>>)>> :
        da \in SeqsUpTo({"b", "foo"}, MaxDeps),
        dc \in SeqsUpTo({"a", "b", "foo"}, MaxDeps),
        al \in AliasPairs}

\* dependants = get_dependants(repo, packages), as get_unbuilt_package_levels
\* calls it
CallGetDependants ==
    /\ pc = "chain" /\ call.op = "none"
    /\ dependants' = GetDependants(results, packages, to_build)
    /\ call' = [call EXCEPT !.op = "get_dependants"]
    /\ pc' = "returned"
    /\ UNCHANGED <<error, discoverVars, solverVars, inputVars, jobs, binfmt_registered,
                   selected, checked, kept, build_levels, buildVars, adds, disk>>

InitDependants ==
    /\ Fresh
    /\ results \in DependantTrees
    /\ host = "x86_64"
    /\ args = [NoArgs EXCEPT !.rebuild_dependants = TRUE]
    /\ target_arch = "x86_64"
    /\ run = "first"
    /\ first = [arch |-> "x86_64", outcome |-> "running", built |-> {}]
    /\ jobs = <<>>
    /\ disk = EmptyDisk
    /\ call = NoCall

NextDependants == Discover \/ Select \/ CallGetDependants

SpecDependants == InitDependants /\ [][NextDependants]_vars

\* the registered recipes whose depends holds a name (name, provides or
\* replaces) of a recipe of S
DependOnNames(S) ==
    {i \in DictValues(packages) :
        \E j \in S : names(results[j]) \cap Range(results[i].depends) # {}}

\* the recipes depending, directly or through others, on a name of a recipe
\* of S
RECURSIVE DependantsClosure(_)
DependantsClosure(S) ==
    LET more == S \cup DependOnNames(S)
    IN IF more = S THEN S ELSE DependantsClosure(more)

\* C24: dependants closure. get_dependants returns exactly the recipes
\* that depend, directly or through other dependants, on a name, provides or
\* replaces of a requested recipe.
C24_DependantsClosure ==
    call.op = "get_dependants" =>
        dependants = DependantsClosure(DependOnNames(to_build))

(***************************************************************************)
(* SpecRecursion: discovery, selection and get_dependants call by call,    *)
(* over recipe trees that may hold dependency cycles.                      *)
(***************************************************************************)
\* recipes a and b, which may depend on each other and on c
CycleTrees ==
    {<<Pkgbuild("a", da, <<>>, <<>>), Pkgbuild("b", db, <<>>, <<>>),
       Pkgbuild("c", <<>>, <<>>, <<>>)>> :
        da \in SeqsUpTo({"b", "c"}, MaxDeps),
        db \in SeqsUpTo({"a", "c"}, MaxDeps)}

\* get_dependants: to_add, the registered packages whose depends holds the
\* pkgname of one of pkgs
ToAdd(res, d, pkgs) ==
    LET pkg_names == {res[i].name : i \in pkgs}
    IN {i \in DictValues(d) : pkg_names \cap Range(res[i].depends) # {}}

\* dependants = get_dependants(repo, packages): the outermost call is entered
EnterGetDependants ==
    /\ pc = "chain" /\ call.op = "none"
    /\ call' = [call EXCEPT !.op = "get_dependants", !.depth = 1, !.pending = to_build]
    /\ pc' = "dependants"
    /\ UNCHANGED <<error, discoverVars, solverVars, inputVars, jobs, binfmt_registered,
                   planVars, buildVars, adds, disk>>

\* the innermost call of get_dependants computes to_add; "if recursive and
\* to_add" it calls get_dependants(repo, to_add), else it returns, and with
\* it every call around it, each adding what it got to its own to_add
RecurseGetDependants ==
    /\ pc = "dependants"
    /\ LET to_add == ToAdd(results, packages, call.pending) IN
        IF to_add = {}
        THEN /\ pc' = "returned"
             /\ UNCHANGED <<error, dependants, call>>
        ELSE IF call.depth + 1 > MaxRecursion
        THEN /\ pc' = "failed" /\ error' = "recursion"
             /\ call' = [call EXCEPT !.error = "recursion"]
             /\ UNCHANGED dependants
        ELSE /\ dependants' = dependants \cup to_add
             /\ call' = [call EXCEPT !.depth = @ + 1, !.pending = to_add]
             /\ UNCHANGED <<pc, error>>
    /\ UNCHANGED <<discoverVars, solverVars, inputVars, jobs, binfmt_registered, selected,
                   checked, kept, build_levels, buildVars, adds, disk>>

InitRecursion ==
    /\ Fresh
    /\ results \in CycleTrees
    /\ host = "x86_64"
    /\ args = [NoArgs EXCEPT !.rebuild_dependants = TRUE]
    /\ target_arch = "x86_64"
    /\ run = "first"
    /\ first = [arch |-> "x86_64", outcome |-> "running", built |-> {}]
    /\ jobs = <<>>
    /\ disk = EmptyDisk
    /\ call = NoCall

NextRecursion == Discover \/ Select \/ EnterGetDependants \/ RecurseGetDependants

SpecRecursion == InitRecursion /\ [][NextRecursion]_vars

\* C31: the dependants computation terminates. For every registry, also one
\* with a dependency cycle through a requested recipe, get_dependants
\* returns after finitely many nested calls: it never nests deeper than there
\* are recipes, and never ends in a RecursionError.
C31_DependantsTerminate ==
    call.op = "get_dependants" =>
        /\ call.depth <= Len(results) + 1
        /\ error # "recursion"

(***************************************************************************)
(* SpecOrder: generate_dependency_chain is run twice on the same registry  *)
(* and the same requested recipes; each run iterates over its sets in an   *)
(* order of its own.                                                       *)
(***************************************************************************)
\* filter_packages(repo, paths) for one or two paths
SelectPaths ==
    /\ pc = "discovered"
    /\ \E paths \in {ps \in SUBSET PkgNames : Cardinality(ps) \in {1, 2}} :
        LET sel == FilterPackages(results, packages, paths) IN
        IF sel = {}
        THEN /\ pc' = "failed" /\ error' = "no_match" /\ UNCHANGED to_build
        ELSE /\ pc' = "chain" /\ to_build' = sel /\ UNCHANGED error
    /\ UNCHANGED <<discoverVars, visited, visited_names, dep_levels,
                   level, repeat_count, last_level, package_levels, orchVars>>

\* generate_dependency_chain(package_repo, to_build) is called once more
\* with the same arguments; what the first call returned or raised is kept
SolveAgain ==
    /\ call.op = "none"
    /\ pc = "solved" \/ (pc = "failed" /\ error # "no_match")
    /\ call' = [call EXCEPT !.op = "solve_again", !.plan = package_levels, !.error = error]
    /\ pc' = "chain" /\ error' = "none"
    /\ visited' = {} /\ visited_names' = {} /\ dep_levels' = <<{}, {}>>
    /\ level' = 0 /\ repeat_count' = 0 /\ last_level' = NoLevel
    /\ package_levels' = <<>>
    /\ UNCHANGED <<discoverVars, to_build, inputVars, jobs, binfmt_registered, planVars,
                   buildVars, adds, disk>>

NextOrder == Discover \/ SelectPaths \/ InitLevels \/ ScanPass \/ Finish \/ SolveAgain

SpecOrder == InitLive /\ [][NextOrder]_vars

\* C32: solver determinism. Two runs of the solver on the same registry and
\* the same requested recipes, which differ only in the order their sets are
\* iterated in, return the same levels (or raise the same error).
C32_SolverDeterminism ==
    (call.op = "solve_again" /\ pc \in {"solved", "failed"}) =>
        (package_levels = call.plan /\ error = call.error)

(***************************************************************************)
(* SpecRepoInfo: the RepoInfo and Repo objects of distro.py. A dict of     *)
(* options is a set of <<key, value>> pairs with one pair per key.         *)
(* RepoInfo.options is an attribute of the class; RepoInfo.__init__ never  *)
(* assigns self.options, so self.options of every RepoInfo is that dict.   *)
(***************************************************************************)
MaxInfos == 5

\* the repos of constants.BASE_DISTROS[arch] and the url of one of them
BaseRepos == <<"core", "extra">>
BaseUrl(arch, name) == <<"base", arch, name>>

\* the repos of get_kupfer, in the order of constants.REPOSITORIES
RepositoryList == <<"main", "cross">>

\* dict.update(options)
Update(d, options) == {kv \in d : \A o \in options : o[1] # kv[1]} \cup options

\* RepoInfo.__init__(url_template, options): self.options.update(options)
\* updates the dict of the class; given is what the constructor was handed
RepoInfoInit(c, url_template, options) ==
    [c EXCEPT !.class_options = Update(@, options),
              !.infos = Append(@, [url_template |-> url_template, given |-> options])]

\* info.options: no RepoInfo has an options attribute of its own, the lookup
\* ends at the class
Options(c, info) == c.class_options

\* Repo.__init__: self.options = deepcopy(options)
RepoInit(c, distro, name, arch, url_template, options) ==
    [c EXCEPT !.repos = Append(@, [distro |-> distro, name |-> name, arch |-> arch,
                                   url_template |-> url_template, options |-> options])]

\* {name: RepoInfo(url_template=url(name), options=options) for name in names}
RECURSIVE RepoInfos(_, _, _, _, _)
RepoInfos(c, repo_names, arch, kupfer_url, options) ==
    IF repo_names = <<>> THEN c
    ELSE RepoInfos(RepoInfoInit(c, IF kupfer_url = <<>> THEN BaseUrl(arch, Head(repo_names))
                                                        ELSE kupfer_url, options),
                   Tail(repo_names), arch, kupfer_url, options)

\* Distro.__init__: one Repo per repo_info, with repo_info.options
RECURSIVE DistroInit(_, _, _, _, _)
DistroInit(c, distro, repo_names, arch, first_info) ==
    IF repo_names = <<>> THEN c
    ELSE LET info == c.infos[first_info] IN
         DistroInit(RepoInit(c, distro, Head(repo_names), arch, info.url_template, Options(c, info)),
                    distro, Tail(repo_names), arch, first_info + 1)

\* get_kupfer(arch, url_template)
GetKupfer ==
    /\ pc = "start" /\ Len(call.infos) + Len(RepositoryList) <= MaxInfos
    /\ \E arch \in Arches, url_template \in UrlTemplates :
        call' = DistroInit(RepoInfos([call EXCEPT !.op = "repo_info"], RepositoryList, arch,
                                     url_template, {<<"SigLevel", "Never">>}),
                           "kupfer", RepositoryList, arch, Len(call.infos) + 1)
    /\ UNCHANGED <<pc, error, discoverVars, solverVars, inputVars, jobs, binfmt_registered,
                   planVars, buildVars, adds, disk>>

\* get_base_distro(arch)
GetBaseDistro ==
    /\ pc = "start" /\ Len(call.infos) + Len(BaseRepos) <= MaxInfos
    /\ \E arch \in Arches :
        call' = DistroInit(RepoInfos([call EXCEPT !.op = "repo_info"], BaseRepos, arch, <<>>, {}),
                           "base", BaseRepos, arch, Len(call.infos) + 1)
    /\ UNCHANGED <<pc, error, discoverVars, solverVars, inputVars, jobs, binfmt_registered,
                   planVars, buildVars, adds, disk>>

\* Repo.get_RepoInfo() of a repo made before
GetRepoInfo ==
    /\ pc = "start" /\ Len(call.infos) < MaxInfos
    /\ \E i \in DOMAIN call.repos :
        call' = RepoInfoInit([call EXCEPT !.op = "repo_info"], call.repos[i].url_template,
                             call.repos[i].options)
    /\ UNCHANGED <<pc, error, discoverVars, solverVars, inputVars, jobs, binfmt_registered,
                   planVars, buildVars, adds, disk>>

InitRepoInfo ==
    /\ Fresh
    /\ results = <<>>
    /\ host = "x86_64"
    /\ args = NoArgs
    /\ target_arch = "x86_64"
    /\ run = "first"
    /\ first = [arch |-> "x86_64", outcome |-> "running", built |-> {}]
    /\ jobs = <<>>
    /\ disk = EmptyDisk
    /\ call = NoCall

NextRepoInfo == GetKupfer \/ GetBaseDistro \/ GetRepoInfo

SpecRepoInfo == InitRepoInfo /\ [][NextRepoInfo]_vars

\* C33: RepoInfo option isolation. Every RepoInfo holds exactly the options
\* it was constructed with, whatever was constructed before or after it, and
\* the repos of a base distro carry no option given to another distro's
\* RepoInfo.
C33_OptionIsolation ==
    call.op = "repo_info" =>
        /\ \A i \in DOMAIN call.infos : Options(call, call.infos[i]) = call.infos[i].given
        /\ \A i \in DOMAIN call.repos :
               call.repos[i].distro = "base" => call.repos[i].options = {}

(***************************************************************************)
(* SpecParallel: discover_packages(parallel=True). The parse_pkgbuild      *)
(* tasks finish in any order; the dictionary is built after Parallel(...)  *)
(* returned.                                                               *)
(***************************************************************************)
\* Gather that hands the results over in the order the tasks finished
GatherAsCompleted(chunks, finished) == [k \in DOMAIN finished |-> chunks[finished[k]]]

\* Parallel(n_jobs)(delayed(parse_pkgbuild)(path, ...) for path in paths):
\* the list of the tasks' results, in the order of paths
Gather(chunks, finished) == [k \in DOMAIN finished |-> chunks[k]]

\* for pkglist in chunks: results += pkglist
RECURSIVE Flatten(_)
Flatten(chunks) == IF chunks = <<>> THEN <<>> ELSE Head(chunks) \o Flatten(Tail(chunks))

\* a parse_pkgbuild task finishes
ParseDone ==
    /\ pc = "start"
    /\ \E task \in DOMAIN call.chunks \ Range(call.finished) :
        call' = [call EXCEPT !.op = "discover", !.finished = Append(@, task)]
    /\ UNCHANGED <<pc, error, discoverVars, solverVars, inputVars, jobs, binfmt_registered,
                   planVars, buildVars, adds, disk>>

\* Parallel(...) returns when every task has finished; then results and the
\* dictionary are built and the local dependencies filtered
DiscoverParallel ==
    /\ pc = "start" /\ call.op = "discover"
    /\ Range(call.finished) = DOMAIN call.chunks
    /\ LET res == Flatten(Gather(call.chunks, call.finished))
           d == BuildDictionary(res, 1, <<>>)
       IN /\ results' = res
          /\ packages' = d
          /\ local_depends' = FilterLocalDepends(res, d)
    /\ pc' = "discovered"
    /\ UNCHANGED <<error, solverVars, orchVars>>

\* what parse_pkgbuild returns for each path, in the order of paths
ParallelTrees == {[k \in DOMAIN tree |-> <<tree[k]>>] : tree \in DependantTrees}

InitParallel ==
    /\ Fresh
    /\ results = <<>>
    /\ host = "x86_64"
    /\ args = NoArgs
    /\ target_arch = "x86_64"
    /\ run = "first"
    /\ first = [arch |-> "x86_64", outcome |-> "running", built |-> {}]
    /\ jobs = <<>>
    /\ disk = EmptyDisk
    /\ call \in {[NoCall EXCEPT !.chunks = c] : c \in ParallelTrees}

NextParallel == ParseDone \/ DiscoverParallel

SpecParallel == InitParallel /\ [][NextParallel]_vars

\* the dictionary d over the list res, as name -> Pkgbuild
Registry(res, d) == [n \in DOMAIN d |-> res[d[n]]]

\* the dictionary discover_packages(parallel=False) builds
Sequential ==
    LET res == Flatten(call.chunks) IN Registry(res, BuildDictionary(res, 1, <<>>))

\* C29: parallel discovery is deterministic. Nothing is merged while a parse
\* task is running, and whatever the order the tasks finish in, the
\* dictionary built is the one sequential discovery builds, the winner of
\* each name collision included.
C29_ParallelDeterministic ==
    /\ Range(call.finished) # DOMAIN call.chunks => (pc = "start" /\ packages = <<>>)
    /\ pc = "discovered" =>
        /\ results = Flatten(call.chunks)
        /\ Registry(results, packages) = Sequential

\* the tasks finished in another order than their paths', and two recipes
\* collide on a name: c is inserted after b, which replaces c
C29_Witness ==
    /\ pc = "discovered" /\ call.op = "discover"
    /\ call.finished = <<3, 2, 1>>
    /\ results[2].replaces = <<"c">>
    /\ packages["c"] = 3

\* S together with every recipe reachable by following depends through the
\* registry
RECURSIVE DepClosure(_)
DepClosure(S) ==
    LET more == S \cup UNION {ResolvedDeps(p) : p \in S}
    IN IF more = S THEN S ELSE DepClosure(more)

\* C23: plan coverage. The union of the levels of a returned plan is the
\* requested recipes together with every recipe reachable from them through
\* depends and the registry, and every such recipe is in exactly one level.
C23_PlanCoverage ==
    pc = "solved" =>
        /\ Planned = DepClosure(to_build)
        /\ \A i, j \in DOMAIN package_levels :
            i # j => package_levels[i] \cap package_levels[j] = {}

\* recipes a (depends on foo), b (provides foo), c; a is requested
ProvidesFoo ==
    /\ results[1].depends = <<"foo">>
    /\ results[2].depends = <<>> /\ results[2].provides = <<"foo">>
    /\ results[2].replaces = <<>>
    /\ results[3].depends = <<>>
    /\ to_build = {1}

\* C12: provides-based alias resolution. With a depending on foo, b providing
\* foo and a requested, the solver returns the levels [{b}, {a}].
C12_ProvidesResolution ==
    (ProvidesFoo /\ pc = "solved") => package_levels = <<{2}, {1}>>

\* the package files package p is expected to have in the repository of arch
ExpectedFiles(p, arch) == Range(PackageList(results[p], arch))

\* every expected package file of p lies in the repository of arch
ArtifactsPresent(p, arch) ==
    \A f \in ExpectedFiles(p, arch) : HasFile(disk, InRepo(arch, results[p].repo), f)

\* get_unbuilt_package_levels of the job build() was called for has returned
MainPlanned ==
    /\ checked # {} /\ checked = Planned
    /\ \/ pc \in {"build", "publish"} /\ Head(jobs).kind = "main"
       \/ pc = "job" /\ jobs = <<>>

\* C13: dependants cascade. With rebuild_dependants set, every requested
\* recipe and every recipe transitively depending on one is in the unbuilt
\* levels, whether or not its package files exist.
C13_DependantsCascade ==
    (MainPlanned /\ args.rebuild_dependants) => (selected \cup dependants) \subseteq kept

\* get_unbuilt_package_levels of the job build() was called for is running
\* or has returned, and nothing has been built since
MainPlanning ==
    /\ built = {}
    /\ \/ pc \in {"solved", "build"} /\ Head(jobs).kind = "main"
       \/ pc = "job" /\ jobs = <<>> /\ checked # {}

\* C14: forced rebuild. With force set, every requested recipe examined is
\* in the unbuilt levels, also when its package files are present; a recipe
\* that was not requested (and is no dependant to rebuild) and whose package
\* files are present is not.
C14_ForcedRebuild ==
    (MainPlanning /\ args.force) =>
        /\ (selected \cap checked) \subseteq kept
        /\ \A p \in checked \ selected :
            (ArtifactsPresent(p, target_arch) /\ ~(args.rebuild_dependants /\ p \in dependants))
                => p \notin kept

\* a forced second run keeps the requested recipe, whose package file the
\* first run published, and leaves out its dependencies, which are built
C14_Witness ==
    /\ MainPlanning /\ args.force /\ ~args.rebuild_dependants /\ run = "second"
    /\ checked = Planned
    /\ \E p \in selected \cap kept : ArtifactsPresent(p, target_arch)
    /\ \E q \in checked \ selected : q \notin kept

\* the packages published so far lie in the repository of the job's arch and
\* its index refers to them
PublishedKept ==
    \A p \in published : \A f \in ExpectedFiles(p, Head(jobs).arch) :
        /\ HasFile(disk, InRepo(Head(jobs).arch, results[p].repo), f)
        /\ Indexed(disk, Head(jobs).arch, results[p].repo, f)

\* build_package raised
BuildFailed == pc = "failed" /\ error = "build"

\* C17: build failure is fatal and non-destructive. When the build of a
\* recipe fails, the invocation has ended: the only step left is another
\* invocation of build(), no recipe of the plan is built or published any
\* more; and every package published before is still in its repository
\* directory and index.
C17_BuildFailure ==
    /\ [](BuildFailed => (PublishedKept /\ built = published))
    /\ [][BuildFailed => (run = "first" /\ run' = "second")]_vars

\* a build failed after a recipe of the plan had been published
C17_Witness == BuildFailed /\ published # {}

\* C19: initialisation precedes publication. No package file is copied or
\* published into the repository of an arch before init_prebuilts has
\* created that repository: no copy finds the directory missing, and every
\* add_file_to_repo made by the last step met an initialised repository.
C19_InitPrecedesPublication ==
    /\ error # "io_error"
    /\ \A k \in DOMAIN adds :
        LET dir == disk.packages[adds[k].arch][adds[k].repo]
        IN dir.exists /\ \A n \in IndexExts : IndexExists(dir, n)

\* the level of the list levels that holds p
LevelOf(levels, p) == CHOOSE i \in DOMAIN levels : p \in levels[i]

\* C25: planner filtering. With force and rebuild_dependants unset, the
\* levels get_unbuilt_package_levels returns hold exactly the recipes of the
\* solver's plan whose package files check_package_version_built found
\* missing for the arch, no level is empty, and two recipes kept are in the
\* same order, or in the same level, as in the solver's plan.
C25_PlannerFiltering ==
    (MainPlanned /\ ~args.force /\ ~args.rebuild_dependants) =>
        /\ \A i \in DOMAIN build_levels : build_levels[i] # {}
        /\ UNION Range(build_levels) = kept
        /\ kept \subseteq Planned
        /\ built = {} => kept = {p \in Planned : ~ArtifactsPresent(p, target_arch)}
        /\ \A p, q \in kept :
            /\ LevelOf(build_levels, p) < LevelOf(build_levels, q)
                <=> LevelOf(package_levels, p) < LevelOf(package_levels, q)
            /\ \A r \in (ResolvedDeps(p) \cap kept) \ {p} :
                LevelOf(build_levels, r) < LevelOf(build_levels, p)

\* a plan of three levels is filtered down to fewer: a whole level of built
\* recipes is dropped, and recipes of different levels are kept
C25_Witness ==
    /\ MainPlanned /\ ~args.force /\ ~args.rebuild_dependants /\ built = {}
    /\ Len(build_levels) < Len(package_levels)
    /\ \E p, q \in kept : LevelOf(build_levels, p) < LevelOf(build_levels, q)
    /\ \E p \in Planned \ kept : ArtifactsPresent(p, target_arch)

\* build_packages_by_paths for the arch asked for has been entered: its
\* paths are resolved, or it went on to plan or build, or it has ended
MainStarted ==
    \/ pc = "job" /\ jobs = <<>>
    \/ jobs # <<>> /\ Head(jobs).kind = "main" /\ pc \notin {"start", "discovered", "job"}

\* the package file of the cross helper lies in the host arch's repository
HelperBuilt ==
    \A p \in DictValues(packages) :
        results[p].name \in CrossdirectPkgs => ArtifactsPresent(p, host)

\* C26: emulator prerequisite ordering. For a target arch other than the
\* host's, the paths asked for are resolved, planned and built only after
\* the cross helper was built or found built for the host arch and
\* binfmt_register was called for the target arch; for the host arch there is
\* no such build and no registration.
C26_EmulatorOrdering ==
    /\ [](pc # "start" /\ MainStarted /\ target_arch # host =>
            target_arch \in binfmt_registered /\ HelperBuilt)
    /\ [](target_arch = host =>
            binfmt_registered = {} /\ \A k \in DOMAIN jobs : jobs[k].kind = "main")
    /\ [][target_arch = host => binfmt_registered' = {}]_vars

\* a recipe is being built for a foreign arch, after the registration
C26_Witness ==
    /\ MainStarted /\ target_arch # host /\ pc = "publish"
    /\ target_arch \in binfmt_registered /\ HelperBuilt

\* C30: solver termination. Whatever the registry and the requested recipes,
\* cyclic or not, generate_dependency_chain ends after finitely many passes
\* of its main loop: it returns a plan or raises (checked under SpecLive).
C30_SolverTermination == <>(pc \in {"solved", "failed"})

\* the solver has ended on a registry with a cycle (a -> b -> c -> a), after
\* scanning more than one level
C30_Witness ==
    /\ pc \in {"solved", "failed"}
    /\ Range(results[1].depends) = {"b"}
    /\ "c" \in Range(results[2].depends)
    /\ "a" \in Range(results[3].depends)
    /\ level >= 2

\* C34: repetition guard reachability. In every state of the solver's main
\* loop repeat_count is at most 1, so the cycle error ("more than 10
\* unchanged iterations") is never raised; the only error the solver raises
\* is the depth limit.
C34_RepeatGuardUnreachable ==
    pc \in {"scan", "solved", "failed"} =>
        /\ repeat_count <= 1
        /\ error # "cycle"
        /\ (pc = "failed" /\ error # "no_match") => error = "depth"

\* a pass that left its level unmodified right after a pass that modified
\* it: repeat_count is 1, the loop has moved on to the next level
C34_Witness ==
    /\ pc = "scan" /\ repeat_count = 1 /\ level >= 1
    /\ last_level = dep_levels[level]
====
